---- MODULE Spec2Model ----
(***************************************************************************)
(* Wardrobe AI backend (backend-main.py): the four POST handlers of the    *)
(* FastAPI application and the mannequin compositor, as a state machine.   *)
(* One request is handled at a time: the service holds no state between    *)
(* requests except the credentials read from the environment at start-up.  *)
(***************************************************************************)
EXTENDS Integers, Sequences, FiniteSets, TLC

VARIABLES env, last

vars == <<env, last>>

(***************************************************************************)
(* Bounds of the model.                                                    *)
(***************************************************************************)
MaxWardrobe == 3

MaxItems == 3

(***************************************************************************)
(* Python values.  A JSON null (or any other non-string value) in a place  *)
(* where the code expects a string is the value None; a dict is a function *)
(* whose DOMAIN is its key set.                                            *)
(***************************************************************************)
None == "<None>"

IsStr(v) == v # None

\* dict.get(key, default)
Get(d, key, default) == IF key \in DOMAIN d THEN d[key] ELSE default

\* `k in s` for two strings: k occurs in s as a substring
Contains(s, k) ==
    \E i \in 1..(Len(s) - Len(k) + 1) : SubSeq(s, i, i + Len(k) - 1) = k

\* any(x in cat for x in keywords)
AnyIn(keywords, cat) == \E k \in keywords : Contains(cat, k)

LowerChar(c) ==
    CASE c = "S" -> "s"
      [] c = "J" -> "j"
      [] c = "B" -> "b"
      [] c = "H" -> "h"
      [] OTHER -> c

\* str.lower()
RECURSIVE Lower(_)
Lower(s) ==
    IF s = "" THEN ""
    ELSE LowerChar(SubSeq(s, 1, 1)) \o Lower(SubSeq(s, 2, Len(s)))

\* str.strip()
RECURSIVE Strip(_)
Strip(s) ==
    IF s = "" THEN ""
    ELSE IF SubSeq(s, 1, 1) = " " THEN Strip(SubSeq(s, 2, Len(s)))
    ELSE IF SubSeq(s, Len(s), Len(s)) = " " THEN Strip(SubSeq(s, 1, Len(s) - 1))
    ELSE s

\* str.startswith(prefix)
StartsWith(s, prefix) ==
    Len(s) >= Len(prefix) /\ SubSeq(s, 1, Len(prefix)) = prefix

\* str.split(sep) for a one-character separator
RECURSIVE SplitFrom(_, _, _)
SplitFrom(s, sep, acc) ==
    IF s = "" THEN <<acc>>
    ELSE IF SubSeq(s, 1, 1) = sep
         THEN <<acc>> \o SplitFrom(SubSeq(s, 2, Len(s)), sep, "")
         ELSE SplitFrom(SubSeq(s, 2, Len(s)), sep, acc \o SubSeq(s, 1, 1))

Split(s, sep) == SplitFrom(s, sep, "")

(***************************************************************************)
(* generate_outfit: the keyword families and the selection.                *)
(***************************************************************************)
TopKeywords ==
    {"shirt", "top", "blouse", "t-shirt", "sweater", "jacket", "coat", "outerwear"}

BottomKeywords == {"pants", "bottom", "jeans", "trousers", "skirt"}

ShoeKeywords == {"shoe", "sneaker", "boot", "sandal"}

\* BucketOf with outerwear taken out of the top family
BucketOfOuterwearApart(cat) ==
    IF AnyIn({"jacket", "coat", "outerwear"}, cat) THEN "outerwear"
    ELSE IF AnyIn(TopKeywords, cat) THEN "top"
    ELSE IF AnyIn(BottomKeywords, cat) THEN "bottom"
    ELSE IF AnyIn(ShoeKeywords, cat) THEN "shoes"
    ELSE "other"

\* the if/elif chain of the categorisation loop, on the lower-cased category
BucketOf(cat) ==
    IF AnyIn(TopKeywords, cat) THEN "top"
    ELSE IF AnyIn(BottomKeywords, cat) THEN "bottom"
    ELSE IF AnyIn(ShoeKeywords, cat) THEN "shoes"
    ELSE "other"

\* enumerate(wardrobe): the 0-based indices in order
Indices(wardrobe) == [k \in 1..Len(wardrobe) |-> k - 1]

\* item.get('category', '') of the item at 0-based index i
CategoryAt(wardrobe, i) == Get(wardrobe[i + 1], "category", "")

\* .lower() raises AttributeError on a category that is not a string
CategorizeRaises(wardrobe) ==
    \E i \in 0..(Len(wardrobe) - 1) : ~IsStr(CategoryAt(wardrobe, i))

\* the list the loop appends to for one bucket: indices in wardrobe order
Bucket(wardrobe, bucket) ==
    SelectSeq(Indices(wardrobe),
              LAMBDA i : BucketOf(Lower(CategoryAt(wardrobe, i))) = bucket)

\* outfit_indices after the three `if bucket:` appends
FirstOf(tops, bottoms, shoes) ==
    (IF tops # <<>> THEN <<tops[1]>> ELSE <<>>)
    \o (IF bottoms # <<>> THEN <<bottoms[1]>> ELSE <<>>)
    \o (IF shoes # <<>> THEN <<shoes[1]>> ELSE <<>>)

\* while len(outfit_indices) < 3 and others: append others.pop(0)
RECURSIVE PadOthers(_, _)
PadOthers(outfit, others) ==
    IF Len(outfit) < 3 /\ others # <<>>
    THEN PadOthers(Append(outfit, Head(others)), Tail(others))
    ELSE outfit

\* PadZero without the loop
PadZeroNever(outfit) == outfit

\* while len(outfit_indices) < 2: append index 0
RECURSIVE PadZero(_)
PadZero(outfit) ==
    IF Len(outfit) < 2 THEN PadZero(Append(outfit, 0)) ELSE outfit

\* f"Complete outfit for {occasion} in {weather} weather"
Explanation(occasion, weather) ==
    "Complete outfit for " \o occasion \o " in " \o weather \o " weather"

\* The handler's record of one call: the request, the locals the selection
\* went through, and the JSON response.
OutfitCall(wardrobe, occasion, weather) ==
    LET base == [endpoint |-> "generate-outfit", wardrobe |-> wardrobe,
                 occasion |-> occasion, weather |-> weather, status |-> 200]
        empty == [tops |-> <<>>, bottoms |-> <<>>, shoes |-> <<>>,
                  others |-> <<>>, first |-> <<>>]
    IN  IF Len(wardrobe) < 2
        THEN base @@ empty @@
             [path |-> "early", outfit |-> <<0>>, explanation |-> "Add more items!"]
        ELSE IF CategorizeRaises(wardrobe)
        THEN base @@ empty @@
             [path |-> "except", outfit |-> <<0, 1>>,
              explanation |-> "Outfit suggestion"]
        ELSE LET tops == Bucket(wardrobe, "top")
                 bottoms == Bucket(wardrobe, "bottom")
                 shoes == Bucket(wardrobe, "shoes")
                 others == Bucket(wardrobe, "other")
                 first == FirstOf(tops, bottoms, shoes)
             IN  base @@
                 [tops |-> tops, bottoms |-> bottoms, shoes |-> shoes,
                  others |-> others, first |-> first, path |-> "normal",
                  outfit |-> PadZero(PadOthers(first, others)),
                  explanation |-> Explanation(occasion, weather)]

(***************************************************************************)
(* Requests the client can send to /generate-outfit.                       *)
(***************************************************************************)
WardrobeCategories ==
    {"shirt", "Jacket", "jeans", "sneakers", "hat", None}

WardrobeItems ==
    {[category |-> c] : c \in WardrobeCategories} \cup {[name |-> "scarf"]}

RECURSIVE SeqsUpTo(_, _)
SeqsUpTo(S, n) ==
    IF n = 0 THEN {<<>>}
    ELSE LET shorter == SeqsUpTo(S, n - 1)
         IN  shorter \cup {Append(s, x) : s \in {t \in shorter : Len(t) = n - 1}, x \in S}

Wardrobes == SeqsUpTo(WardrobeItems, MaxWardrobe)

Occasions == {"casual", "formal"}

Weathers == {"cold", "moderate"}

(***************************************************************************)
(* create_mannequin_composite.  The canvas is observed at a fixed set of   *)
(* probe pixels; a decoded image is its size, its alpha mask and the one   *)
(* colour of its opaque pixels.                                            *)
(***************************************************************************)
Width == 1024

Height == 1536

White == "white"

Probes ==
    {<<10, 10>>, <<300, 430>>, <<500, 450>>, <<512, 460>>, <<512, 680>>,
     <<512, 768>>, <<512, 844>>, <<512, 1259>>}

\* Image.new('RGBA', (width, height), (255, 255, 255, 255))
NewCanvas == [width |-> Width, height |-> Height, px |-> [p \in Probes |-> White]]

\* int(height * f) for f = pct / 100
Frac(pct) == (Height * pct) \div 100

Positions ==
    ("shirt" :> <<Width \div 2, Frac(30)>>) @@
    ("top" :> <<Width \div 2, Frac(30)>>) @@
    ("t-shirt" :> <<Width \div 2, Frac(30)>>) @@
    ("blouse" :> <<Width \div 2, Frac(30)>>) @@
    ("sweater" :> <<Width \div 2, Frac(30)>>) @@
    ("jacket" :> <<Width \div 2, Frac(28)>>) @@
    ("coat" :> <<Width \div 2, Frac(28)>>) @@
    ("outerwear" :> <<Width \div 2, Frac(28)>>) @@
    ("pants" :> <<Width \div 2, Frac(55)>>) @@
    ("bottom" :> <<Width \div 2, Frac(55)>>) @@
    ("jeans" :> <<Width \div 2, Frac(55)>>) @@
    ("trousers" :> <<Width \div 2, Frac(55)>>) @@
    ("skirt" :> <<Width \div 2, Frac(55)>>) @@
    ("shoes" :> <<Width \div 2, Frac(82)>>) @@
    ("shoe" :> <<Width \div 2, Frac(82)>>) @@
    ("sneakers" :> <<Width \div 2, Frac(82)>>) @@
    ("boots" :> <<Width \div 2, Frac(82)>>) @@
    ("dress" :> <<Width \div 2, Frac(45)>>)

SizeLimits ==
    ("jacket" :> <<550, 550>>) @@
    ("coat" :> <<550, 550>>) @@
    ("outerwear" :> <<550, 550>>) @@
    ("shirt" :> <<500, 500>>) @@
    ("top" :> <<500, 500>>) @@
    ("pants" :> <<450, 650>>) @@
    ("bottom" :> <<450, 650>>) @@
    ("shoes" :> <<320, 280>>) @@
    ("dress" :> <<500, 700>>)

DefaultMaxSize == <<400, 400>>

DefaultPos == <<Width \div 2, Height \div 2>>

\* size_limits.get(category, (400, 400))
MaxSizeOf(category) == Get(SizeLimits, category, DefaultMaxSize)

\* positions.get(category, (width//2, height//2))
PosOf(category) == Get(Positions, category, DefaultPos)

\* base64.b64decode + Image.open(...).convert('RGBA'): the payloads that
\* decode to an image; every other payload makes one of the two calls raise.
Decodable ==
    ("imgA" :> [w |-> 1000, h |-> 1000, alpha |-> "full", colour |-> "A"]) @@
    ("imgB" :> [w |-> 600, h |-> 1300, alpha |-> "full", colour |-> "B"]) @@
    ("imgC" :> [w |-> 800, h |-> 600, alpha |-> "left", colour |-> "C"]) @@
    ("imgD" :> [w |-> 100, h |-> 80, alpha |-> "full", colour |-> "D"])

Abs(n) == IF n < 0 THEN 0 - n ELSE n

Max(a, b) == IF a >= b THEN a ELSE b

\* Image.thumbnail(max_size): shrink, never enlarge, keeping the aspect
\* ratio; the free side is floor or ceil of the exact value, whichever
\* keeps the ratio closer (floor on a tie), and at least 1.
Thumbnail(img, max_size) ==
    LET x == max_size[1]
        y == max_size[2]
        w == img.w
        h == img.h
    IN  IF x >= w /\ y >= h THEN img
        ELSE IF x * h >= w * y
        THEN LET fl == (y * w) \div h
                 ce == IF (y * w) % h = 0 THEN fl ELSE fl + 1
                 nx == IF Abs(w * y - fl * h) <= Abs(w * y - ce * h) THEN fl ELSE ce
             IN  [img EXCEPT !.w = Max(nx, 1), !.h = y]
        ELSE LET fl == (x * h) \div w
                 ce == IF (x * h) % w = 0 THEN fl ELSE fl + 1
                 ny == IF fl = 0 THEN fl
                       ELSE IF Abs(w * fl - x * h) * ce <= Abs(w * ce - x * h) * fl
                       THEN fl ELSE ce
             IN  [img EXCEPT !.w = x, !.h = Max(ny, 1)]

\* the alpha mask of the image at its own pixel (u, v)
OpaqueAt(img, u, v) ==
    /\ 0 <= u /\ u < img.w
    /\ 0 <= v /\ v < img.h
    /\ (img.alpha = "left" => 2 * u < img.w)

\* the canvas pixel p lies under an opaque pixel of img pasted at paste_pos
Covers(img, paste_pos, p) == OpaqueAt(img, p[1] - paste_pos[1], p[2] - paste_pos[2])

\* Paste that only fills pixels nothing was pasted on yet
PasteBehind(canvas, img, paste_pos) ==
    [canvas EXCEPT !.px = [p \in Probes |->
        IF Covers(img, paste_pos, p) /\ canvas.px[p] = White
        THEN img.colour ELSE canvas.px[p]]]

\* composite.paste(img, paste_pos, img): the image's alpha is the mask
Paste(canvas, img, paste_pos) ==
    [canvas EXCEPT !.px = [p \in Probes |->
        IF Covers(img, paste_pos, p) THEN img.colour ELSE canvas.px[p]]]

\* The body of the try block for one item: "continue" (no image data),
\* "raise" (an exception of that statement), or "paste" with what was pasted.
ItemBody(item) ==
    LET image_data == Get(item, "image", "")
    IN  IF image_data = "" \/ image_data = None THEN [kind |-> "continue"]
        ELSE LET prefixed == StartsWith(image_data, "data:image")
                 parts == Split(image_data, ",")
             IN  IF prefixed /\ Len(parts) < 2
                 THEN [kind |-> "raise", exc |-> "IndexError"]
                 ELSE LET payload == IF prefixed THEN parts[2] ELSE image_data
                          raw == Get(item, "category", "shirt")
                      IN  IF payload \notin DOMAIN Decodable
                          THEN [kind |-> "raise", exc |-> "UnidentifiedImageError"]
                          ELSE IF ~IsStr(raw)
                          THEN [kind |-> "raise", exc |-> "AttributeError"]
                          ELSE LET category == Strip(Lower(raw))
                                   max_size == MaxSizeOf(category)
                                   img == Thumbnail(Decodable[payload], max_size)
                                   pos == PosOf(category)
                                   paste_pos == <<pos[1] - img.w \div 2,
                                                  pos[2] - img.h \div 2>>
                               IN  [kind |-> "paste", raw |-> raw, category |-> category,
                                    max_size |-> max_size, pos |-> pos,
                                    img |-> img, paste_pos |-> paste_pos]

\* TryItem without the except clause: the exception leaves the loop
TryItemUncaught(item) == ItemBody(item)

\* try: ... except Exception: continue
TryItem(item) ==
    LET r == ItemBody(item)
    IN  IF r.kind = "raise" THEN [kind |-> "continue"] ELSE r

\* The for loop from item k on; acc is [raised, canvas, placed].
RECURSIVE CompositeFrom(_, _, _)
CompositeFrom(items, k, acc) ==
    IF k > Len(items) THEN acc
    ELSE LET r == TryItem(items[k])
         IN  IF r.kind = "raise" THEN [acc EXCEPT !.raised = TRUE]
             ELSE IF r.kind = "continue" THEN CompositeFrom(items, k + 1, acc)
             ELSE CompositeFrom(items, k + 1,
                      [acc EXCEPT !.canvas = Paste(acc.canvas, r.img, r.paste_pos),
                                  !.placed = Append(acc.placed, r @@ [index |-> k - 1])])

\* create_mannequin_composite(items)
CreateMannequinComposite(items) ==
    CompositeFrom(items, 1, [raised |-> FALSE, canvas |-> NewCanvas, placed |-> <<>>])

(***************************************************************************)
(* Items the client can send to /generate-mannequin.                       *)
(***************************************************************************)
DataUri(payload) == "data:image/png;base64," \o payload

MannequinItems ==
    {[image |-> DataUri("imgA"), category |-> "shirt"],
     [image |-> "imgB", category |-> "Jeans "],
     [image |-> DataUri("imgC"), category |-> "jacket"],
     [image |-> DataUri("imgD"), category |-> "hat"],
     [image |-> DataUri("imgA"), category |-> None],
     [category |-> "shoes"],
     [image |-> DataUri("@@@@"), category |-> "pants"],
     [image |-> "data:image/png;base64", category |-> "sneakers"]}

ItemLists == SeqsUpTo(MannequinItems, MaxItems)

(***************************************************************************)
(* The handlers that call an external collaborator.  A handler's try block *)
(* either returns a JSONResponse or raises; FastAPI answers a raised       *)
(* HTTPException with its status_code.                                     *)
(***************************************************************************)
Return(status, body) == [kind |-> "return", status |-> status, body |-> body]

Raise(exc, status_code) == [kind |-> "raise", exc |-> exc, status_code |-> status_code]

\* what the client receives for the outcome r of a handler
HttpResponse(r) ==
    IF r.kind = "return" THEN [status |-> r.status, body |-> r.body]
    ELSE IF r.exc = "HTTPException"
    THEN [status |-> r.status_code, body |-> [detail |-> "error"]]
    ELSE [status |-> 500, body |-> [detail |-> "Internal Server Error"]]

\* What messages.create does: it raises (timeout, transport or API error),
\* or returns text that json.loads accepts, bare or inside a ``` fence, or
\* text that it rejects.
ClaudeOutcomes == {"json", "fenced-json", "not-json", "error"}

AnalyzeDefault(color) ==
    [category |-> "top", color |-> color, style |-> "casual",
     season |-> "all-season", description |-> "Clothing item"]

\* the try block of analyze_clothing
AnalyzeBody(upstream) ==
    IF ~env.claude THEN Return(200, AnalyzeDefault("blue"))
    ELSE IF upstream = "error" THEN Raise("APIError", 0)
    ELSE IF upstream = "not-json" THEN Raise("JSONDecodeError", 0)
    ELSE Return(200, [category |-> "shirt", color |-> "red", style |-> "casual",
                      season |-> "summer", description |-> "from the model"])

\* analyze_clothing: except Exception returns the default record
AnalyzeClothingCall(upstream) ==
    LET r == AnalyzeBody(upstream)
        out == IF r.kind = "raise" THEN Return(200, AnalyzeDefault("unknown")) ELSE r
    IN  [endpoint |-> "analyze-clothing", configured |-> env.claude,
         called |-> env.claude,
         upstream |-> IF env.claude THEN upstream ELSE "not-called"]
        @@ HttpResponse(out)

\* What requests.post to remove.bg does: a status code, or it raises.
NotCalled == [raises |-> FALSE, status_code |-> 0]

RemoveBgOutcomes ==
    {[raises |-> FALSE, status_code |-> c] : c \in {200, 402, 429, 500}}
    \cup {[raises |-> TRUE, status_code |-> 0]}

\* the try block of remove_background
RemoveBackgroundBody(upstream) ==
    IF ~env.removebg
    THEN Return(400, [success |-> FALSE, error |-> "No API key"])
    ELSE IF upstream.raises THEN Raise("Timeout", 0)
    ELSE IF upstream.status_code = 200
    THEN Return(200, [success |-> TRUE, method |-> "removebg"])
    ELSE Return(upstream.status_code, [success |-> FALSE, error |-> "response.text"])

\* remove_background: except Exception returns status 500
RemoveBackgroundCall(upstream) ==
    LET r == RemoveBackgroundBody(upstream)
        out == IF r.kind = "raise"
               THEN Return(500, [success |-> FALSE, error |-> r.exc]) ELSE r
    IN  [endpoint |-> "remove-background", configured |-> env.removebg,
         called |-> env.removebg,
         upstream |-> IF env.removebg THEN upstream ELSE NotCalled]
        @@ HttpResponse(out)

\* What the Replicate step does: replicate.run raises, or it returns a URL
\* whose download answers 200, answers 404, or times out.
ReplicateOutcomes == {"run-error", "download-200", "download-404", "download-timeout"}

\* the inner try block: the enhanced image, or an exception
ReplicateBody(upstream) ==
    IF upstream = "run-error" THEN Raise("ReplicateError", 0)
    ELSE IF upstream = "download-timeout" THEN Raise("Timeout", 0)
    ELSE Return(200, [success |-> TRUE, method |-> "replicate-enhanced",
                      image |-> upstream])

\* the outer try block of generate_mannequin
MannequinBody(request, upstream) ==
    LET outfit_items == Get(request, "items", <<>>)
    IN  IF outfit_items = <<>> THEN Raise("HTTPException", 400)
        ELSE LET composite == CreateMannequinComposite(outfit_items)
                 basic == Return(200, [success |-> TRUE, method |-> "basic-composite",
                                       image |-> composite.canvas])
             IN  IF composite.raised THEN Raise("Exception", 0)
                 ELSE IF env.replicate
                 THEN LET r == ReplicateBody(upstream)
                      IN  IF r.kind = "raise" THEN basic ELSE r
                 ELSE basic

\* except Exception as e: raise HTTPException(status_code=500, ...)
MannequinExcept(r) ==
    IF r.kind = "raise" THEN Raise("HTTPException", 500) ELSE r

\* generate_mannequin
GenerateMannequinCall(request, upstream) ==
    LET called == env.replicate /\ Get(request, "items", <<>>) # <<>>
    IN  [endpoint |-> "generate-mannequin", request |-> request,
         configured |-> env.replicate, called |-> called,
         upstream |-> IF called THEN upstream ELSE "not-called"]
        @@ HttpResponse(MannequinExcept(MannequinBody(request, upstream)))

MannequinRequests ==
    {[items |-> items, style |-> "realistic"] : items \in ItemLists}
    \cup {[style |-> "realistic"]}

Idle == [endpoint |-> "idle"]

Init ==
    /\ env \in [claude : BOOLEAN, removebg : BOOLEAN, replicate : BOOLEAN]
    /\ last = Idle

GenerateOutfit ==
    /\ last = Idle
    /\ \E wardrobe \in Wardrobes, occasion \in Occasions, weather \in Weathers :
           last' = OutfitCall(wardrobe, occasion, weather)
    /\ UNCHANGED env

\* the response is sent and the request-scoped values are dropped
Respond ==
    /\ last # Idle
    /\ last' = Idle
    /\ UNCHANGED env

AnalyzeClothing ==
    /\ last = Idle
    /\ \E upstream \in ClaudeOutcomes : last' = AnalyzeClothingCall(upstream)
    /\ UNCHANGED env

RemoveBackground ==
    /\ last = Idle
    /\ \E upstream \in RemoveBgOutcomes : last' = RemoveBackgroundCall(upstream)
    /\ UNCHANGED env

GenerateMannequin ==
    /\ last = Idle
    /\ \E request \in MannequinRequests, upstream \in ReplicateOutcomes :
           last' = GenerateMannequinCall(request, upstream)
    /\ UNCHANGED env

Next ==
    \/ AnalyzeClothing
    \/ GenerateOutfit
    \/ RemoveBackground
    \/ GenerateMannequin
    \/ Respond

\* create_mannequin_composite called on its own
Composite ==
    /\ last = Idle
    /\ \E items \in ItemLists :
           last' = [endpoint |-> "create_mannequin_composite", items |-> items]
                   @@ CreateMannequinComposite(items)
    /\ UNCHANGED env

NextComposite == Composite \/ Respond

SpecComposite == Init /\ [][NextComposite]_vars

Spec == Init /\ [][Next]_vars

(***************************************************************************)
(* Vocabulary of the properties.                                           *)
(***************************************************************************)
IsOutfit == last.endpoint = "generate-outfit"

IsComposite == last.endpoint = "create_mannequin_composite"

IsMannequin == last.endpoint = "generate-mannequin"

Elems(seq) == {seq[k] : k \in 1..Len(seq)}

NoDuplicates(seq) == \A j, k \in 1..Len(seq) : seq[j] = seq[k] => j = k

Min(a, b) == IF a <= b THEN a ELSE b

\* the keyword family of a wardrobe item; an item without a string
\* category belongs to no family
FamilyOfItem(item) ==
    LET c == Get(item, "category", "")
    IN  IF IsStr(c) THEN BucketOf(Lower(c)) ELSE "none"

HasFamily(wardrobe, family) ==
    \E k \in 1..Len(wardrobe) : FamilyOfItem(wardrobe[k]) = family

IsOuterwear(item) ==
    LET c == Get(item, "category", "")
    IN  IsStr(c) /\ AnyIn({"jacket", "coat", "outerwear"}, Lower(c))

ValidIndex(i, wardrobe) == 0 <= i /\ i < Len(wardrobe)

\* the item's image data is present and decodes to an image
ImageDecodable(item) ==
    LET d == Get(item, "image", "")
    IN  /\ d # "" /\ d # None
        /\ \E payload \in DOMAIN Decodable : d = payload \/ d = DataUri(payload)

\* the rectangles of two pasted items intersect
RegionsOverlap(a, b) ==
    /\ a.paste_pos[1] < b.paste_pos[1] + b.img.w
    /\ b.paste_pos[1] < a.paste_pos[1] + a.img.w
    /\ a.paste_pos[2] < b.paste_pos[2] + b.img.h
    /\ b.paste_pos[2] < a.paste_pos[2] + a.img.h

KeywordsOf(family) ==
    CASE family = "top" -> TopKeywords
      [] family = "bottom" -> BottomKeywords
      [] family = "shoes" -> ShoeKeywords
      [] OTHER -> {}

\* the anchors and size limits the compositor's tables give a family
FamilyAnchors(family) == {Positions[k] : k \in KeywordsOf(family) \cap DOMAIN Positions}

FamilySizes(family) == {SizeLimits[k] : k \in KeywordsOf(family) \cap DOMAIN SizeLimits}

\* a collaborator that is not configured, or whose call failed
CollaboratorFailed ==
    \/ /\ last.endpoint = "analyze-clothing"
       /\ ~last.configured \/ last.upstream \in {"error", "not-json"}
    \/ /\ last.endpoint = "remove-background"
       /\ \/ ~last.configured
          \/ last.upstream.raises
          \/ last.upstream.status_code # 200
    \/ /\ IsMannequin
       /\ Get(last.request, "items", <<>>) # <<>>
       /\ \/ ~last.configured
          \/ last.upstream \in {"run-error", "download-404", "download-timeout"}

(***************************************************************************)
(* The claims.                                                             *)
(***************************************************************************)

\* C1: for every wardrobe with at least one top-family and one bottom-family
\* item, the returned outfit is non-empty, every index is within the
\* wardrobe, one index is a top-family item and one a bottom-family item.
C1_TopAndBottomSelected ==
    (IsOutfit /\ HasFamily(last.wardrobe, "top") /\ HasFamily(last.wardrobe, "bottom"))
    => /\ last.outfit # <<>>
       /\ \A i \in Elems(last.outfit) : ValidIndex(i, last.wardrobe)
       /\ \E i \in Elems(last.outfit) :
              ValidIndex(i, last.wardrobe) /\ FamilyOfItem(last.wardrobe[i + 1]) = "top"
       /\ \E i \in Elems(last.outfit) :
              ValidIndex(i, last.wardrobe) /\ FamilyOfItem(last.wardrobe[i + 1]) = "bottom"

C3_IndicesInRange ==
    IsOutfit => \A i \in Elems(last.outfit) : ValidIndex(i, last.wardrobe)

\* C4: the compositor never raises because of an item and returns a
\* 1024x1536 canvas equal to the composite of the items whose image data is
\* present and decodable, in the same order; it is the blank white canvas
\* when no item is decodable.
C4_BadItemsSkipped ==
    IsComposite
    => /\ ~last.raised
       /\ last.canvas.width = 1024 /\ last.canvas.height = 1536
       /\ last.canvas =
              CreateMannequinComposite(SelectSeq(last.items, ImageDecodable)).canvas
       /\ (\A k \in 1..Len(last.items) : ~ImageDecodable(last.items[k]))
              => last.canvas = NewCanvas

C4_Witness ==
    /\ IsComposite
    /\ Len(last.items) = 3
    /\ ~ImageDecodable(last.items[1])
    /\ ImageDecodable(last.items[2])
    /\ ~ImageDecodable(last.items[3])
    /\ Len(last.placed) = 1
    /\ last.canvas # NewCanvas

\* C5: when the collaborator of analyze-clothing, remove-background or
\* generate-mannequin is not configured or its call fails, the endpoint
\* answers 200 with the fallback content, never 4xx or 5xx.
C5_FallbackIs200 ==
    CollaboratorFailed
    => /\ last.status = 200
       /\ IsMannequin => last.body.method = "basic-composite"

\* C6: a generate-mannequin request whose items field is missing or empty
\* is answered with a 4xx status, never a 5xx.
C6_MalformedMannequinIs4xx ==
    (IsMannequin /\ Get(last.request, "items", <<>>) = <<>>)
    => (400 <= last.status /\ last.status < 500)

C8_OuterwearOnlyWhenCold ==
    (IsOutfit /\ last.weather # "cold")
    => \A i \in Elems(last.outfit) :
           ValidIndex(i, last.wardrobe) => ~IsOuterwear(last.wardrobe[i + 1])

\* C8 as amended: outerwear is part of the top family and is not gated by
\* the weather: for every weather, an outerwear item is in the outfit
\* exactly when it is the first top-family item of the wardrobe (selection
\* from the buckets), the item at index 0 (fewer than 2 items), or the item
\* at index 0 or 1 (exception fallback).
C8_OuterwearSelectedAsFirstTop ==
    IsOutfit
    => \A i \in 0..(Len(last.wardrobe) - 1) :
           IsOuterwear(last.wardrobe[i + 1])
           => (i \in Elems(last.outfit)
               <=> CASE last.path = "normal" -> (last.tops # <<>> /\ last.tops[1] = i)
                     [] last.path = "early" -> i = 0
                     [] last.path = "except" -> i \in {0, 1})

C8_Witness ==
    /\ IsOutfit
    /\ last.path = "normal"
    /\ last.weather = "moderate"
    /\ HasFamily(last.wardrobe, "bottom")
    /\ \E i \in Elems(last.outfit) : IsOuterwear(last.wardrobe[i + 1])
    /\ \E i \in 0..(Len(last.wardrobe) - 1) :
           IsOuterwear(last.wardrobe[i + 1]) /\ i \notin Elems(last.outfit)

\* C9: when fewer than 2 items came from the top, bottom and shoes buckets,
\* padding adds only indices of the other bucket, each at most once, stops
\* at 2 items or when the other bucket is exhausted, and never makes an
\* index appear twice.
C9_PaddingOnlyFromOthers ==
    (IsOutfit /\ last.path = "normal" /\ Len(last.first) < 2)
    => /\ SubSeq(last.outfit, 1, Len(last.first)) = last.first
       /\ \A k \in (Len(last.first) + 1)..Len(last.outfit) :
              last.outfit[k] \in Elems(last.others)
       /\ NoDuplicates(last.outfit)
       /\ Len(last.outfit) = Min(2, Len(last.first) + Len(last.others))

\* C10: a category the selector puts in the top, bottom or shoes family is
\* placed by the compositor with an anchor and a size limit of that family,
\* and the compositor's default anchor and default size are used only for
\* categories the selector puts in the other bucket.
C10_SameNormalization ==
    IsComposite
    => \A k \in 1..Len(last.placed) :
           LET e == last.placed[k]
               family == BucketOf(Lower(e.raw))
           IN  /\ family \in {"top", "bottom", "shoes"}
                  => (e.pos \in FamilyAnchors(family)
                      /\ e.max_size \in FamilySizes(family))
               /\ (e.pos = DefaultPos \/ e.max_size = DefaultMaxSize)
                  => family = "other"
====
